---- MODULE Spec2Model ----
(***************************************************************************)
(* Model of scripts/etl_project.py: the memory watchdog (MemoryManager),   *)
(* the retrying HTTP client (RobustAPI), the extract/transform class       *)
(* (UserData), the three sink loaders (DataLoader) and the __main__        *)
(* driver.                                                                 *)
(*                                                                         *)
(* Time is counted in ticks of half a second.  Time passes only inside     *)
(* time.sleep, by exactly the argument of the call.                        *)
(***************************************************************************)
EXTENDS Integers, Sequences, FiniteSets, TLC

\* ------------------------------------------------------------------------
\* Bounds of the model
\* ------------------------------------------------------------------------
\* largest max_retries a direct caller of makeRequest passes
MaxRetriesBound == 3
\* HTTP GETs one makeRequest call may issue beyond max_retries before the
\* model stops following it (the code itself has no such limit)
ExtraGets == 2

\* ------------------------------------------------------------------------
\* Program constants
\* ------------------------------------------------------------------------
TicksPerSecond == 2
\* time.sleep(0.5) in clean_memory
PauseTicks == 1
\* time.sleep(5) in wait_memory
PollSeconds == 5
\* max_percent=90 at every call site
MaxPercent == 90
\* max_wait_minutes=5 in UserData.__init__
MaxWaitMinutes == 5
\* max_retries=5, the default of makeRequest
DefaultMaxRetries == 5

\* the value Python's None, as a memory sample
None == -1

\* samples psutil can report: None stands for get_memory's except branch
Samples == {None, 42, 90, 91, 97}

\* ------------------------------------------------------------------------
\* HTTP
\* ------------------------------------------------------------------------
TransientStatus == {429, 500, 502, 503, 504}
Statuses == {200, 204, 304, 401, 404, 501} \cup TransientStatus

\* ------------------------------------------------------------------------
\* JSON payloads and tables
\*
\* A column name is a sequence of tokens: words, and the characters ".",
\* "_" and " ".  A key of a JSON object is such a sequence too, and a
\* record of the `results` array is given flattened: a function from the
\* path of keys leading to a leaf to the leaf's value.  A value carries its
\* JSON type and its decimal text.
\* ------------------------------------------------------------------------
Str(s) == [t |-> "str", s |-> s]
Int_(s) == [t |-> "int", s |-> s]
Float(s) == [t |-> "float", s |-> s]
Null == [t |-> "null", s |-> "None"]
NaN == [t |-> "float", s |-> "nan"]

Range(s) == { s[i] : i \in DOMAIN s }

\* "a.b.c": the keys of a path joined by dots (pd.json_normalize, sep=".")
RECURSIVE JoinPath(_)
JoinPath(path) ==
  IF Len(path) = 1 THEN path[1]
  ELSE path[1] \o <<".">> \o JoinPath(Tail(path))

\* str.lower on one token
Lower(tok) ==
  CASE tok = "Email" -> "email"
    [] tok = "NAME" -> "name"
    [] tok = "Age" -> "age"
    [] OTHER -> tok

\* .str.replace('.', '_', regex=False).str.lower()
ReplaceLower(name) ==
  [ i \in DOMAIN name |-> IF name[i] = "." THEN "_" ELSE Lower(name[i]) ]

\* .str.strip(): leading and trailing white space removed
RECURSIVE LStrip(_)
LStrip(name) ==
  IF name # <<>> /\ Head(name) = " " THEN LStrip(Tail(name)) ELSE name

RECURSIVE RStrip(_)
RStrip(name) ==
  IF name # <<>> /\ name[Len(name)] = " "
  THEN RStrip(SubSeq(name, 1, Len(name) - 1))
  ELSE name

\* a strip that removes one white-space character at each end
Strip_once(name) ==
  LET l == IF name # <<>> /\ Head(name) = " " THEN Tail(name) ELSE name
  IN IF l # <<>> /\ l[Len(l)] = " " THEN SubSeq(l, 1, Len(l) - 1) ELSE l

Strip(name) == RStrip(LStrip(name))

\* the three chained .str calls of data_transform
RenameColumn(name) == Strip(ReplaceLower(name))

colunas_relacionais ==
  << <<"email">>, <<"name", "_", "title">>, <<"name", "_", "first">>,
     <<"name", "_", "last">>,
     <<"location", "_", "street", "_", "number">>,
     <<"location", "_", "street", "_", "name">>,
     <<"location", "_", "city">>, <<"location", "_", "state">>,
     <<"location", "_", "country">>, <<"location", "_", "postcode">> >>

\* paths of one, two and three one-word keys
P1(a) == << <<a>> >>
P2(a, b) == << <<a>>, <<b>> >>
P3(a, b, c) == << <<a>>, <<b>>, <<c>> >>

\* a record of the upstream API, flattened
UserFull ==
  (P1("email") :> Str("ana@example.org"))
  @@ (P2("name", "title") :> Str("Ms"))
  @@ (P2("name", "first") :> Str("Ana"))
  @@ (P2("name", "last") :> Str("Lima"))
  @@ (P3("location", "street", "number") :> Int_("12"))
  @@ (P3("location", "street", "name") :> Str("Rua A"))
  @@ (P2("location", "city") :> Str("Recife"))
  @@ (P2("location", "state") :> Str("PE"))
  @@ (P2("location", "country") :> Str("Brazil"))
  @@ (P2("location", "postcode") :> Int_("50000"))
  @@ (P2("dob", "age") :> Int_("30"))

\* the same record without its email
UserNoEmail == [ p \in (DOMAIN UserFull) \ {P1("email")} |-> UserFull[p] ]

\* the paths of the ten columns the relational sink expects
RelationalPaths ==
  { P1("email"), P2("name", "title"), P2("name", "first"), P2("name", "last"),
    P3("location", "street", "number"), P3("location", "street", "name"),
    P2("location", "city"), P2("location", "state"),
    P2("location", "country"), P2("location", "postcode") }

\* the record without the value at path p
UserWithout(p) == [ q \in (DOMAIN UserFull) \ {p} |-> UserFull[q] ]

\* {"name": {"first": "Ana", "last": "Lima"}, "age": 30}
UserAna ==
  (P2("name", "first") :> Str("Ana"))
  @@ (P2("name", "last") :> Str("Lima"))
  @@ (P1("age") :> Int_("30"))

\* records whose `age` is a number in one and null in the other
UserAge30 == (P1("name") :> Str("Ana")) @@ (P1("age") :> Int_("30"))
UserAgeNull == (P1("name") :> Str("Bia")) @@ (P1("age") :> Null)

\* records whose `postcode` is a number in one and a string in the other
UserPostcodeInt == (P1("postcode") :> Int_("50000"))
UserPostcodeStr == (P1("postcode") :> Str("AB1"))

\* a record with a floating-point value
UserFloat == (P1("name") :> Str("Ana")) @@ (P2("coordinates", "latitude") :> Float("1.5"))

\* a record whose keys hold capitals, white space and a literal dot
UserOddKeys ==
  (<< <<" ", "Email", " ">> >> :> Str("ana@example.org"))
  @@ (<< <<"NAME">>, <<"first">> >> :> Str("Ana"))
  @@ (<< <<" ", " ", "Age">> >> :> Int_("30"))
  @@ (<< <<"dob", ".", "year">> >> :> Int_("1990"))

\* a JSON document: the keys of the top-level object and its `results`
Payload(keys, results) == [type |-> "dict", keys |-> keys, results |-> results]
\* Python's None, as the value makeRequest falls out of its loop with
NoneValue == [type |-> "None", keys |-> {}, results |-> <<>>]
\* a body response.json() cannot parse
NotJson == [type |-> "notjson", keys |-> {}, results |-> <<>>]

PayloadGood == Payload({"results", "info"}, <<UserFull>>)
PayloadNoEmail == Payload({"results", "info"}, <<UserNoEmail>>)
PayloadAna == Payload({"results"}, <<UserAna>>)
PayloadNoRows == Payload({"results", "info"}, <<>>)
PayloadNoResults == Payload({"error"}, <<>>)
PayloadEmpty == Payload({}, <<>>)

PayloadMixedNull == Payload({"results"}, <<UserAge30, UserAgeNull>>)
PayloadMixedStr == Payload({"results"}, <<UserPostcodeInt, UserPostcodeStr>>)
PayloadFloat == Payload({"results"}, <<UserFloat>>)
PayloadOddKeys == Payload({"results"}, <<UserOddKeys>>)

\* payloads whose record lacks one of the ten expected values
PayloadsLackingOne ==
  { Payload({"results", "info"}, <<UserWithout(p)>>) : p \in RelationalPaths }

Payloads ==
  { PayloadGood, PayloadNoEmail, PayloadAna, PayloadNoRows, PayloadNoResults,
    PayloadEmpty, PayloadMixedNull, PayloadMixedStr, PayloadFloat,
    PayloadOddKeys }
  \cup PayloadsLackingOne

\* truth value of a JSON document in `if data := ...`
Truthy(v) == v.type = "dict" /\ v.keys # {}

\* pd.json_normalize(records): one column per dotted path, NaN where a
\* record has no such path
json_normalize(records) ==
  LET cols == UNION { { JoinPath(p) : p \in DOMAIN records[i] } :
                      i \in DOMAIN records }
      Cell(r, c) ==
        IF \E p \in DOMAIN r : JoinPath(p) = c
        THEN r[CHOOSE p \in DOMAIN r : JoinPath(p) = c]
        ELSE NaN
  IN [ columns |-> cols,
       rows |-> [ i \in DOMAIN records |->
                    [ c \in cols |-> Cell(records[i], c) ] ] ]

\* dtype pandas infers for a column
Dtype(df, c) ==
  LET ts == { df.rows[i][c].t : i \in DOMAIN df.rows }
  IN IF ts = {"int"} THEN "int64"
     ELSE IF ts \subseteq {"int", "float", "null"} /\ ts \cap {"int", "float"} # {}
          THEN "float64"
          ELSE "object"

\* one cell of a column under .astype(str)
AsStr(v, dtype) ==
  IF dtype = "int64" THEN Str(v.s)
  ELSE IF v.t = "int" THEN Str(v.s \o ".0")
       ELSE IF v.t = "null" THEN Str("nan")
            ELSE Str(v.s)

\* lines 133-138: the columns renamed
rename_columns(df) ==
  LET Old(c) == CHOOSE o \in df.columns : RenameColumn(o) = c
      cols == { RenameColumn(o) : o \in df.columns }
  IN [ columns |-> cols,
       rows |-> [ i \in DOMAIN df.rows |->
                    [ c \in cols |-> df.rows[i][Old(c)] ] ] ]

\* lines 141-142: the int64 and float64 columns turned into strings
stringify_numeric(df) ==
  LET numeric_columns == { c \in df.columns : Dtype(df, c) \in {"int64", "float64"} }
  IN [ columns |-> df.columns,
       rows |-> [ i \in DOMAIN df.rows |->
                    [ c \in df.columns |->
                        IF c \in numeric_columns
                        THEN AsStr(df.rows[i][c], Dtype(df, c))
                        ELSE df.rows[i][c] ] ] ]

\* a DataFrame handed to data_transform as its `data`: data['results'] then
\* looks for a column named results
AsData(df) ==
  [ type |-> "DataFrame",
    keys |-> { c[1] : c \in { k \in df.columns : Len(k) = 1 } },
    results |-> <<>> ]

\* data_transform raises: data is None (TypeError) or has no `results`
data_transform_raises(data) ==
  data.type \notin {"dict", "DataFrame"} \/ "results" \notin data.keys

\* the DataFrame data_transform returns
data_transform_value(data) ==
  stringify_numeric(rename_columns(json_normalize(data.results)))

EmptyFrame == [columns |-> {}, rows |-> <<>>]

\* the DataFrames the loaders are handed
Frames == { data_transform_value(p) : p \in { q \in Payloads : ~data_transform_raises(q) } }

\* ------------------------------------------------------------------------
\* State
\* ------------------------------------------------------------------------
VARIABLES
  entry,        \* what this run executes: __main__, or one call of the API
  upstream,     \* how the upstream API behaves during this run
  accepts,      \* accepts[s]: the server of sink s accepts a load
  json_error_is_request_exception,
                \* the installed requests raises a RequestException subclass
                \* from response.json() (2.27 and later) or a plain ValueError
  base_url,     \* the url argument of RobustAPI(url, headers)
  endpoint,     \* the endpoint argument of makeRequest
  pc,           \* the call site whose callee is executing
  attrs,        \* attrs[o]: the attributes set on object o
  self_url,     \* the url attribute of the RobustAPI object `client`
  usage,        \* wait_memory: the sample of the current iteration
  elapsed,      \* wait_memory: time.time() - start_wait, in ticks
  last_sleep,   \* wait_memory: ticks slept by the most recent iteration
  all_above,    \* every sample taken since wait_memory began was above max_percent
  clean_usage,  \* wait_memory: the sample its latest clean_memory call took
  self_,        \* makeRequest: the object it is called on
  max_retries,  \* makeRequest: its parameter
  attempt,      \* makeRequest: its counter
  response,     \* makeRequest: the outcome of the most recent requests.get
  gets,         \* makeRequest: HTTP GETs issued
  full_url,     \* makeRequest: the URL of the most recent requests.get
  n_transient,  \* makeRequest: responses with a status in 429, 500, 502, 503, 504
  n_transport,  \* makeRequest: requests.get calls that raised
  other_status, \* makeRequest: first status outside 200 and the transient ones, or 0
  delays,       \* makeRequest: the arguments of its time.sleep calls, in seconds
  data,         \* the value makeRequest returned
  data_df,      \* the DataFrame data_transform returned
  sinks,        \* sinks[s]: the rows appended to sink s
  stages,       \* the functions called, in order
  log,          \* the messages __main__ printed
  catches,      \* times the except clause of __main__ ran
  collected,    \* the most recent clean_memory ran gc.collect and paused
  exc,          \* the exception raised by the most recent failing call
  outcome       \* "running", "ok", "failed" (__main__), "returned", "raised"

vars ==
  << entry, upstream, accepts, json_error_is_request_exception, base_url,
     endpoint, self_url, full_url, pc, attrs,
     usage, elapsed, last_sleep, all_above, clean_usage, self_, max_retries, attempt,
     response, gets, n_transient, n_transport, other_status, delays, data,
     data_df, sinks, stages, log, catches, collected, exc, outcome >>

env_vars ==
  << entry, upstream, accepts, json_error_is_request_exception, base_url,
     endpoint >>
obj_vars == << attrs, self_url >>
wait_vars == << usage, elapsed, last_sleep, all_above, clean_usage >>
load_vars == << data, data_df, sinks >>
request_vars ==
  << self_, max_retries, attempt, response, gets, full_url, n_transient,
     n_transport, other_status, delays >>

Entries ==
  { "main", "fetch_data", "data_transform", "makeRequest",
    "postgresql_load", "mongodb_load", "bigquery_load" }
LoaderEntries == { "postgresql_load", "mongodb_load", "bigquery_load" }
Sinks == { "postgresql", "mongodb", "bigquery" }
Objects == { "user_data_api", "client" }

NoExc == [type |-> "", status |-> 0]
Exc(type) == [type |-> type, status |-> 0]
NoResponse == [kind |-> "none", status |-> 0, body |-> NotJson]
Unset == [type |-> "unset", keys |-> {}, results |-> <<>>]

\* ------------------------------------------------------------------------
\* The upstream API
\* ------------------------------------------------------------------------
Resp(status, body) == [kind |-> "response", status |-> status, body |-> body]
ConnectionError == [kind |-> "ConnectionError", status |-> 0, body |-> NotJson]

\* what one requests.get can come back with
Upstream(policy) ==
  CASE policy = "ok" -> { Resp(200, PayloadGood) }
    [] policy = "transient" -> { Resp(st, NotJson) : st \in TransientStatus }
    [] OTHER ->
         { ConnectionError }
         \cup { Resp(st, NotJson) : st \in Statuses \ {200} }
         \cup { Resp(200, b) : b \in Payloads \cup {NotJson} }

Policies == { "any", "ok", "transient" }

\* ------------------------------------------------------------------------
\* Control: call sites and what follows each call
\* ------------------------------------------------------------------------
\* the function a call site calls
Called(site) ==
  CASE site = "L108" -> <<"wait_memory">>
    [] site \in {"L113", "L302", "L307"} -> <<"clean_memory">>
    [] site = "L276" -> <<"DataLoader">>
    [] site \in {"L280", "L119", "makeRequest"} -> <<"makeRequest">>
    [] site \in {"L284", "data_transform"} -> <<"data_transform">>
    [] site \in {"L291", "postgresql_load"} -> <<"postgresql_load">>
    [] site \in {"L295", "mongodb_load"} -> <<"mongodb_load">>
    [] site \in {"L299", "bigquery_load"} -> <<"bigquery_load">>
    [] OTHER -> <<>>

Step(to, msgs, out, caught) ==
  [pc |-> to, log |-> msgs, outcome |-> out, caught |-> caught]

\* the call sites inside the try block of __main__
TrySites == {"L280", "L284", "L291", "L295", "L299", "L302"}

\* __main__: what follows a call that returned; truthy is the truth value of
\* the value the call returned
main_after(site, truthy) ==
  CASE site = "L113" -> Step("L276", <<>>, "running", 0)
    [] site = "L276" -> Step("L280", <<>>, "running", 0)
    [] site = "L280" ->
         IF truthy
         THEN Step("L284", <<"Dados obtidos com sucesso da API.">>, "running", 0)
         ELSE Step("done", <<"Sem dados da API.">>, "ok", 0)
    [] site = "L284" ->
         Step("L291", <<"Dados transformados com sucesso.">>, "running", 0)
    [] site = "L291" ->
         Step("L295", <<"Dados carregados com sucesso no PostgreSQL.">>, "running", 0)
    [] site = "L295" ->
         Step("L299", <<"Dados carregados com sucesso no MongoDB.">>, "running", 0)
    [] site = "L299" ->
         Step("L302", <<"Dados carregados com sucesso no BigQuery.">>, "running", 0)
    [] site = "L302" -> Step("done", <<>>, "ok", 0)
    [] site = "L307" -> Step("done", <<>>, "failed", 0)

\* an except clause that logs and stops without calling clean_memory
main_except_no_clean(site) ==
  IF site \in TrySites
  THEN Step("done", <<"Ocorreu um erro">>, "failed", 1)
  ELSE Step("done", <<>>, "raised", 0)

\* a driver that logs the exception of a stage and goes on with the next one
main_except_continue(site) ==
  IF site \in TrySites
  THEN Step(main_after(site, TRUE).pc, <<"Ocorreu um erro">>, "running", 1)
  ELSE Step("done", <<>>, "raised", 0)

\* __main__: an exception raised by the call at site
main_except(site) ==
  IF site \in TrySites
  THEN Step("L307", <<"Ocorreu um erro">>, "running", 1)
  ELSE Step("done", <<>>, "raised", 0)

\* what follows a call that returned, for every entry
Returned(site, truthy) ==
  IF entry = "main" THEN main_after(site, truthy)
  ELSE IF site = "L113"
       THEN Step(IF entry = "fetch_data" THEN "L119" ELSE "data_transform",
                 <<>>, "running", 0)
       ELSE Step("done", <<>>, "returned", 0)

\* what follows a call that raised, for every entry
Raised(site) ==
  IF entry = "main" THEN main_except(site)
  ELSE Step("done", <<>>, "raised", 0)

Goto(k) ==
  /\ pc' = k.pc
  /\ log' = log \o k.log
  /\ outcome' = k.outcome
  /\ catches' = catches + k.caught
  /\ stages' = stages \o Called(k.pc)

\* ------------------------------------------------------------------------
\* MemoryManager
\* ------------------------------------------------------------------------
\* the values get_memory can return
get_memory == Samples

\* a clean_memory that collects whatever its sample
clean_memory_collects_always(u, max_percent) == TRUE

\* clean_memory: with sample u it runs gc.collect and sleeps half a second
clean_memory_collects(u, max_percent) == u # None /\ u > max_percent

\* a deadline computed with 100 seconds to the minute
max_time_seconds_100(max_wait_minutes) == max_wait_minutes * 100 * TicksPerSecond

\* wait_memory: max_time_seconds, in ticks
max_time_seconds(max_wait_minutes) == max_wait_minutes * 60 * TicksPerSecond

\* the threshold test written usage < max_percent
wait_memory_returns_strict(u, elapsed_time, max_percent, max_wait_minutes) ==
  \/ u = None
  \/ u < max_percent
  \/ elapsed_time >= max_wait_minutes * 60 * TicksPerSecond

\* wait_memory: the three returns of one iteration
wait_memory_returns(u, elapsed_time, max_percent, max_wait_minutes) ==
  \/ u = None
  \/ u <= max_percent
  \/ elapsed_time >= max_time_seconds(max_wait_minutes)

Above(u) == u # None /\ u > MaxPercent

\* UserData(api_url): __init__ calls wait_memory
UserData_init ==
  /\ pc = "start"
  /\ entry \in {"main", "fetch_data", "data_transform"}
  /\ pc' = "L108"
  /\ stages' = stages \o Called("L108")
  /\ elapsed' = 0
  /\ UNCHANGED << env_vars, obj_vars, usage, last_sleep, all_above,
                  clean_usage, request_vars, load_vars, log, catches, collected, exc, outcome >>

\* one iteration of the loop of wait_memory
wait_memory ==
  /\ pc = "L108"
  /\ \E u \in get_memory :
       /\ usage' = u
       /\ IF wait_memory_returns(u, elapsed, MaxPercent, MaxWaitMinutes)
          THEN /\ pc' = "L108_ret"
               /\ last_sleep' = 0
               /\ all_above' = (all_above /\ Above(u))
               /\ UNCHANGED << elapsed, collected, clean_usage >>
          ELSE \E u2 \in get_memory :
               LET pause == IF clean_memory_collects(u2, MaxPercent)
                            THEN PauseTicks ELSE 0
                   slept == pause + PollSeconds * TicksPerSecond
               IN /\ clean_usage' = u2
                  /\ collected' = clean_memory_collects(u2, MaxPercent)
                  /\ elapsed' = elapsed + slept
                  /\ last_sleep' = slept
                  /\ all_above' = (all_above /\ Above(u) /\ Above(u2))
                  /\ pc' = pc
  /\ UNCHANGED << env_vars, obj_vars, request_vars, load_vars, stages, log,
                  catches, exc, outcome >>

\* URLs are sequences of tokens; "/" is the only token str.strip('/') removes
MaxSlashes == 2

RECURSIVE Slashes(_)
Slashes(n) == IF n = 0 THEN <<>> ELSE <<"/">> \o Slashes(n - 1)

\* api_url of __main__, line 274
api_url == << "https:", "/", "/", "randomuser.me", "/", "api", "/" >>

\* base URLs a caller passes to RobustAPI: absolute, with 0..MaxSlashes
\* trailing slashes
BaseUrls ==
  { << "https:", "/", "/", "randomuser.me", "/", "api" >> \o Slashes(n) :
      n \in 0 .. MaxSlashes }

\* endpoints a caller passes to makeRequest, with 0..MaxSlashes leading slashes
Endpoints ==
  { Slashes(n) \o e :
      n \in 0 .. MaxSlashes, e \in { <<>>, <<"users">>, <<"users", "/", "1">> } }

RECURSIVE lstrip_slashes(_)
lstrip_slashes(u) ==
  IF u # <<>> /\ Head(u) = "/" THEN lstrip_slashes(Tail(u)) ELSE u

RECURSIVE rstrip_slashes(_)
rstrip_slashes(u) ==
  IF u # <<>> /\ u[Len(u)] = "/"
  THEN rstrip_slashes(SubSeq(u, 1, Len(u) - 1))
  ELSE u

\* url.strip('/'), line 76
strip_slashes(u) == rstrip_slashes(lstrip_slashes(u))

endpoint_lstrip_once(e) == IF e # <<>> /\ Head(e) = "/" THEN Tail(e) ELSE e

\* endpoint.lstrip('/'), line 83
endpoint_lstrip(e) == lstrip_slashes(e)

\* f"{self.url}/{endpoint.lstrip('/')}", line 83
FullUrl(url, e) == url \o <<"/">> \o endpoint_lstrip(e)

\* RobustAPI.__init__ on object o
RobustAPI_attrs(o) == [attrs EXCEPT ![o] = @ \cup {"url", "headers"}]

\* UserData.__init__ after wait_memory: lines 110-113
UserData_init_rest ==
  /\ pc = "L108_ret"
  /\ attrs' = [ RobustAPI_attrs("client")
                EXCEPT !["user_data_api"] = @ \cup {"api_url", "client"} ]
  /\ self_url' = strip_slashes(base_url)
  /\ usage' = None
  /\ elapsed' = 0
  /\ last_sleep' = 0
  /\ all_above' = TRUE
  /\ clean_usage' = None
  /\ pc' = "L113"
  /\ stages' = stages \o Called("L113")
  /\ UNCHANGED << env_vars, request_vars, load_vars, log, catches, collected,
                  exc, outcome >>

\* a call of clean_memory from __init__ or from __main__
clean_memory ==
  /\ pc \in {"L113", "L302", "L307"}
  /\ \E u \in get_memory : collected' = clean_memory_collects(u, MaxPercent)
  /\ Goto(Returned(pc, FALSE))
  /\ UNCHANGED << env_vars, obj_vars, wait_vars, request_vars, load_vars, exc >>

\* ------------------------------------------------------------------------
\* RobustAPI
\* ------------------------------------------------------------------------
\* RobustAPI(url, headers), called directly
RobustAPI_init ==
  /\ pc = "start"
  /\ entry = "makeRequest"
  /\ attrs' = RobustAPI_attrs("client")
  /\ self_url' = strip_slashes(base_url)
  /\ pc' = "makeRequest"
  /\ stages' = stages \o Called("makeRequest")
  /\ UNCHANGED << env_vars, wait_vars, request_vars, load_vars, log, catches,
                  collected, exc, outcome >>

RECURSIVE Pow2(_)
Pow2(n) == IF n = 0 THEN 1 ELSE 2 * Pow2(n - 1)

\* a backoff that grows linearly: time.sleep(2 * attempt)
Backoff_linear(n) == 2 * n

\* a backoff that does not grow: time.sleep(2)
Backoff_fixed(n) == 2

\* a backoff taken before the counter advances: time.sleep(2 ** attempt)
\* followed by attempt += 1
Backoff_before_increment(n) == Pow2(n - 1)

\* the argument of time.sleep(2 ** attempt)
Backoff(n) == Pow2(n)

\* response.raise_for_status() raises HTTPError
raise_for_status(status) == 400 <= status /\ status < 600

Disposition_transport_raises(o, json_is_request_exception) ==
  IF o.kind = "ConnectionError" THEN "raise"
  ELSE IF o.status = 200 /\ o.body # NotJson THEN "return"
  ELSE IF o.status \in TransientStatus \/ raise_for_status(o.status)
       THEN "retry"
       ELSE "loop"

\* what one iteration of the loop does with the outcome o of requests.get:
\*   "return"  return response.json()
\*   "retry"   attempt += 1; time.sleep(2 ** attempt)
\*   "raise"   an exception leaves makeRequest
\*   "loop"    the iteration ends with nothing changed
Disposition(o, json_is_request_exception) ==
  IF o.kind = "ConnectionError" THEN "retry"
  ELSE IF o.status = 200
       THEN IF o.body = NotJson
            THEN IF json_is_request_exception THEN "retry" ELSE "raise"
            ELSE "return"
       ELSE IF o.status \in TransientStatus THEN "retry"
            ELSE IF raise_for_status(o.status) THEN "retry" ELSE "loop"

IsOther(o) ==
  o.kind = "response" /\ o.status # 200 /\ o.status \notin TransientStatus

MakeRequestSites == {"L280", "L119", "makeRequest"}

\* one iteration of the loop of makeRequest: lines 81-97
makeRequest_attempt ==
  /\ pc \in MakeRequestSites
  /\ attempt < max_retries
  /\ gets < max_retries + ExtraGets
  /\ IF "url" \notin attrs[self_]
     THEN \* self.url at line 83
          /\ exc' = Exc("AttributeError")
          /\ Goto(Raised(pc))
          /\ UNCHANGED << request_vars, data >>
     ELSE \E o \in Upstream(upstream) :
          LET d == Disposition(o, json_error_is_request_exception)
          IN /\ gets' = gets + 1
             /\ full_url' = FullUrl(self_url, endpoint)
             /\ response' = o
             /\ n_transient' = n_transient
                  + (IF o.kind = "response" /\ o.status \in TransientStatus
                     THEN 1 ELSE 0)
             /\ n_transport' = n_transport
                  + (IF o.kind = "ConnectionError" THEN 1 ELSE 0)
             /\ other_status' =
                  IF other_status = 0 /\ IsOther(o) THEN o.status ELSE other_status
             /\ attempt' = IF d = "retry" THEN attempt + 1 ELSE attempt
             /\ delays' = IF d = "retry"
                          THEN Append(delays, Backoff(attempt + 1))
                          ELSE delays
             /\ CASE d = "return" ->
                       /\ data' = o.body
                       /\ Goto(Returned(pc, Truthy(o.body)))
                       /\ UNCHANGED exc
                  [] d = "raise" ->
                       /\ exc' = Exc("ValueError")
                       /\ Goto(Raised(pc))
                       /\ UNCHANGED data
                  [] OTHER ->
                       UNCHANGED << pc, log, outcome, catches, stages, exc, data >>
             /\ UNCHANGED << self_, max_retries >>
  /\ UNCHANGED << env_vars, obj_vars, wait_vars, data_df, sinks, collected >>

\* the loop of makeRequest ends: the function returns None
makeRequest_exhausted ==
  /\ pc \in MakeRequestSites
  /\ attempt >= max_retries
  /\ data' = NoneValue
  /\ Goto(Returned(pc, FALSE))
  /\ UNCHANGED << env_vars, obj_vars, wait_vars, request_vars, data_df, sinks,
                  collected, exc >>

\* ------------------------------------------------------------------------
\* UserData.data_transform
\* ------------------------------------------------------------------------
data_transform ==
  /\ pc \in {"L284", "data_transform"}
  /\ \E d \in (IF pc = "L284" THEN {data} ELSE Payloads \cup {NoneValue}) :
       IF data_transform_raises(d)
       THEN /\ exc' = Exc(IF d.type = "dict" THEN "KeyError" ELSE "TypeError")
            /\ Goto(Raised(pc))
            /\ data' = d
            /\ UNCHANGED data_df
       ELSE /\ data_df' = data_transform_value(d)
            /\ Goto(Returned(pc, TRUE))
            /\ data' = d
            /\ UNCHANGED exc
  /\ UNCHANGED << env_vars, obj_vars, wait_vars, request_vars, sinks, collected >>

\* ------------------------------------------------------------------------
\* DataLoader
\* ------------------------------------------------------------------------
\* DataLoader(): __init__ and load_config
DataLoader_init ==
  /\ \/ pc = "L276" /\ Goto(Returned(pc, TRUE)) /\ UNCHANGED data_df
     \/ /\ pc = "start"
        /\ entry \in LoaderEntries
        /\ pc' = entry
        /\ stages' = stages \o Called(entry)
        /\ data_df' \in Frames
        /\ UNCHANGED << log, outcome, catches >>
  /\ UNCHANGED << env_vars, obj_vars, wait_vars, request_vars, data, sinks,
                  collected, exc >>

\* data_df[colunas_relacionais] raises KeyError
missing_columns(df) == Range(colunas_relacionais) \ df.columns

\* data_df[colunas_relacionais].copy()
data_relacionais(df) ==
  [ i \in DOMAIN df.rows |-> [ c \in Range(colunas_relacionais) |-> df.rows[i][c] ] ]

\* a row the `users` table holds before the run
ExistingRow == [ c \in Range(colunas_relacionais) |-> Str("old") ]

\* a load written with data_df.reindex(columns=colunas_relacionais): a missing
\* column is filled with NaN instead of raising
postgresql_load_reindex ==
  /\ pc \in {"L291", "postgresql_load"}
  /\ IF ~accepts["postgresql"]
     THEN /\ exc' = Exc("OperationalError")
          /\ Goto(Raised(pc))
          /\ UNCHANGED sinks
     ELSE /\ sinks' =
               [sinks EXCEPT !["postgresql"] = @ \o
                  [ i \in DOMAIN data_df.rows |->
                      [ c \in Range(colunas_relacionais) |->
                          IF c \in data_df.columns THEN data_df.rows[i][c] ELSE NaN ] ]]
          /\ Goto(Returned(pc, TRUE))
          /\ UNCHANGED exc
  /\ UNCHANGED << env_vars, obj_vars, wait_vars, request_vars, data, data_df,
                  collected >>

postgresql_load ==
  /\ pc \in {"L291", "postgresql_load"}
  /\ IF missing_columns(data_df) # {}
     THEN /\ exc' = Exc("KeyError")
          /\ Goto(Raised(pc))
          /\ UNCHANGED sinks
     ELSE IF ~accepts["postgresql"]
          THEN /\ exc' = Exc("OperationalError")
               /\ Goto(Raised(pc))
               /\ UNCHANGED sinks
          ELSE /\ sinks' = [sinks EXCEPT !["postgresql"] = @ \o data_relacionais(data_df)]
               /\ Goto(Returned(pc, TRUE))
               /\ UNCHANGED exc
  /\ UNCHANGED << env_vars, obj_vars, wait_vars, request_vars, data, data_df,
                  collected >>

\* data_df.to_dict('records')
to_dict_records(df) == df.rows

mongodb_load ==
  /\ pc \in {"L295", "mongodb_load"}
  /\ IF to_dict_records(data_df) = <<>>
     THEN \* insert_many: documents must be a non-empty list
          /\ exc' = Exc("TypeError")
          /\ Goto(Raised(pc))
          /\ UNCHANGED sinks
     ELSE IF ~accepts["mongodb"]
          THEN /\ exc' = Exc("PyMongoError")
               /\ Goto(Raised(pc))
               /\ UNCHANGED sinks
          ELSE /\ sinks' = [sinks EXCEPT !["mongodb"] = @ \o to_dict_records(data_df)]
               /\ Goto(Returned(pc, TRUE))
               /\ UNCHANGED exc
  /\ UNCHANGED << env_vars, obj_vars, wait_vars, request_vars, data, data_df,
                  collected >>

bigquery_load ==
  /\ pc \in {"L299", "bigquery_load"}
  /\ IF ~accepts["bigquery"]
     THEN /\ exc' = Exc("GoogleAPIError")
          /\ Goto(Raised(pc))
          /\ UNCHANGED sinks
     ELSE /\ sinks' = [sinks EXCEPT !["bigquery"] = @ \o data_df.rows]
          /\ Goto(Returned(pc, TRUE))
          /\ UNCHANGED exc
  /\ UNCHANGED << env_vars, obj_vars, wait_vars, request_vars, data, data_df,
                  collected >>

\* ------------------------------------------------------------------------
\* Specification
\* ------------------------------------------------------------------------
Init ==
  /\ entry \in Entries
  /\ upstream \in (IF entry \in {"main", "fetch_data", "makeRequest"}
                   THEN Policies ELSE {"any"})
  /\ accepts \in (IF entry \in {"main"} \cup LoaderEntries
                  THEN [Sinks -> BOOLEAN] ELSE {[s \in Sinks |-> TRUE]})
  /\ json_error_is_request_exception
       \in (IF entry \in {"main", "fetch_data", "makeRequest"}
            THEN BOOLEAN ELSE {TRUE})
  /\ base_url \in (IF entry = "makeRequest" THEN BaseUrls ELSE {api_url})
  /\ endpoint \in (IF entry = "makeRequest" THEN Endpoints ELSE {<<>>})
  /\ self_url = <<>>
  /\ full_url = <<>>
  /\ pc = "start"
  /\ attrs = [o \in Objects |-> {}]
  /\ usage = None
  /\ elapsed = 0
  /\ last_sleep = 0
  /\ all_above = TRUE
  /\ clean_usage = None
  /\ self_ = (IF entry = "main" THEN "user_data_api" ELSE "client")
  /\ max_retries \in (IF entry = "makeRequest"
                      THEN 1 .. MaxRetriesBound ELSE {DefaultMaxRetries})
  /\ attempt = 0
  /\ response = NoResponse
  /\ gets = 0
  /\ n_transient = 0
  /\ n_transport = 0
  /\ other_status = 0
  /\ delays = <<>>
  /\ data = Unset
  /\ data_df = EmptyFrame
  /\ sinks \in (IF entry \in LoaderEntries
                 THEN { [s \in Sinks |-> <<>>], [s \in Sinks |-> <<ExistingRow>>] }
                 ELSE { [s \in Sinks |-> <<>>] })
  /\ stages = <<>>
  /\ log = <<>>
  /\ catches = 0
  /\ collected = FALSE
  /\ exc = NoExc
  /\ outcome = "running"

Next ==
  \/ UserData_init
  \/ wait_memory
  \/ UserData_init_rest
  \/ clean_memory
  \/ RobustAPI_init
  \/ makeRequest_attempt
  \/ makeRequest_exhausted
  \/ data_transform
  \/ DataLoader_init
  \/ postgresql_load
  \/ mongodb_load
  \/ bigquery_load

Spec == Init /\ [][Next]_vars

\* ------------------------------------------------------------------------
\* Properties
\* ------------------------------------------------------------------------
\* a run that is one call of makeRequest on a constructed RobustAPI
DirectRequest == entry \in {"makeRequest", "fetch_data"}

\* the delays 2, 4, ..., 2^n
Doubling(n) == [ i \in 1 .. n |-> 2 ^ i ]

StrictlyIncreasing(seq) ==
  \A i, j \in DOMAIN seq : i < j => seq[i] < seq[j]

Count(seq, x) == Cardinality({ i \in DOMAIN seq : seq[i] = x })

\* C1: once makeRequest has received a response whose status is neither 200
\* nor one of 429, 500, 502, 503, 504, the call has failed with an error
\* carrying that status, that response is the last one it received (no further
\* GET), and no backoff sleep followed it.
C1_NonTransientFailsImmediately ==
  (DirectRequest /\ other_status # 0) =>
    /\ pc = "done"
    /\ outcome = "raised"
    /\ exc = [type |-> "HTTPError", status |-> other_status]
    /\ response.status = other_status
    /\ Len(delays) = gets - 1

\* C2: a makeRequest call issues at most max_retries HTTP GETs.
C2_AtMostMaxRetriesGets ==
  DirectRequest => gets <= max_retries

\* C3: while every response of a makeRequest call is transient, the i-th
\* failure is followed by a sleep of 2^i seconds; such a call ends only after
\* exactly max_retries GETs, and then returns None without raising.
C3_AllTransientExhausts ==
  (DirectRequest /\ n_transient = gets) =>
    /\ delays = Doubling(gets)
    /\ StrictlyIncreasing(delays)
    /\ gets <= max_retries
    /\ pc = "done" =>
         /\ gets = max_retries
         /\ data = NoneValue
         /\ exc = NoExc
         /\ outcome = "returned"

C3_Witness ==
  /\ entry = "fetch_data"
  /\ pc = "done"
  /\ n_transient = gets
  /\ gets = DefaultMaxRetries
  /\ delays = <<2, 4, 8, 16, 32>>
  /\ data = NoneValue

\* C4: when the first k responses are transient and response k+1 is a 200 with
\* a JSON body, the call has returned that body after k+1 GETs (k < max_retries)
\* and exactly the k sleeps 2, 4, ..., 2^k.
C4_SuccessAfterTransients ==
  ( /\ DirectRequest
    /\ response.kind = "response"
    /\ response.status = 200
    /\ response.body # NotJson
    /\ n_transient = gets - 1 ) =>
    /\ pc = "done"
    /\ outcome = "returned"
    /\ exc = NoExc
    /\ data = response.body
    /\ gets <= max_retries
    /\ delays = Doubling(gets - 1)

C4_Witness ==
  /\ entry = "fetch_data"
  /\ pc = "done"
  /\ response = Resp(200, PayloadGood)
  /\ n_transient = 3
  /\ gets = 4
  /\ delays = <<2, 4, 8>>
  /\ data = PayloadGood

\* C5: when every memory sample is above 90, wait_memory(90, 5) has returned
\* no later than 300 s + 5 s after it was called.
C5_WaitReturnsWithinBound ==
  (pc = "L108_ret" /\ all_above) =>
    elapsed <= (MaxWaitMinutes * 60 + PollSeconds) * TicksPerSecond

C5_Witness ==
  /\ pc = "L108_ret"
  /\ all_above
  /\ elapsed >= MaxWaitMinutes * 60 * TicksPerSecond

\* C6: wait_memory raises nothing; it returns only with its last sample
\* unavailable, or at most max_percent, or with at least max_wait elapsed; it
\* goes on polling only with a sample above max_percent taken before max_wait
\* elapsed; and on an unavailable sample it returns without having slept.
C6_WaitMemoryReturns ==
  /\ pc \in {"L108", "L108_ret"} => (exc = NoExc /\ outcome = "running")
  /\ pc = "L108_ret" =>
       /\ \/ usage = None
          \/ usage <= MaxPercent
          \/ elapsed >= MaxWaitMinutes * 60 * TicksPerSecond
       /\ last_sleep = 0
  /\ (pc = "L108" /\ usage # None) =>
       /\ usage > MaxPercent
       /\ elapsed - last_sleep < MaxWaitMinutes * 60 * TicksPerSecond
       /\ last_sleep >= PollSeconds * TicksPerSecond
  /\ (pc = "L108" /\ usage = None) => elapsed = 0

C6_Witness ==
  /\ pc = "L108_ret"
  /\ usage = None
  /\ elapsed > 0

\* the functions __main__ called, without the construction of DataLoader
Steps == SelectSeq(stages, LAMBDA x : x # "DataLoader")

\* memory wait, fetch, normalize, the three loads, final reclamation
ClaimedOrder ==
  << "wait_memory", "makeRequest", "data_transform", "postgresql_load",
     "mongodb_load", "bigquery_load", "clean_memory" >>

\* the same with the clean_memory call of UserData.__init__ after the wait
ClaimedOrderWithInitClean ==
  << "wait_memory", "clean_memory" >> \o Tail(ClaimedOrder)

LoadNames == { "postgresql_load", "mongodb_load", "bigquery_load" }

\* line 280 of __main__ calls makeRequest on user_data_api, whose __init__
\* never ran RobustAPI.__init__: the driver issues no HTTP GET at all
Main_IssuesNoGet ==
  entry = "main" => (gets = 0 /\ data = Unset /\ data_df = EmptyFrame)

\* C7: a driver run against an upstream that answers 200 with a payload
\* holding `results`, with every sink accepting its load, ends without the
\* failure outcome after at least one GET, having run memory wait, fetch,
\* normalize, relational load, document load, warehouse load and the final
\* reclamation in this order, each once.
C7_HappyPathRunsEveryStage ==
  ( /\ entry = "main"
    /\ upstream = "ok"
    /\ \A k \in Sinks : accepts[k]
    /\ pc = "done" ) =>
    /\ outcome = "ok"
    /\ catches = 0
    /\ gets >= 1
    /\ Steps \in {ClaimedOrder, ClaimedOrderWithInitClean}

\* C8: in a driver run an exception raised by the fetch, the normalize or a
\* load step is caught once by the except clause, which logs it and calls
\* clean_memory; no other stage runs after it and the run ends failed.
C8_ExceptionCaughtOnce ==
  entry = "main" =>
    /\ catches <= 1
    /\ (outcome = "failed" \/ catches = 1) => exc # NoExc
    /\ exc # NoExc =>
         /\ catches = 1
         /\ log # <<>> /\ log[Len(log)] = "Ocorreu um erro"
         /\ Len(stages) >= 2
         /\ stages[Len(stages)] = "clean_memory"
         /\ stages[Len(stages) - 1]
              \in {"makeRequest", "data_transform"} \cup LoadNames
         /\ pc \in {"L307", "done"}
         /\ pc = "done" => outcome = "failed"

C8_Witness ==
  /\ entry = "main"
  /\ pc = "done"
  /\ outcome = "failed"
  /\ exc # NoExc
  /\ catches = 1

\* C9: a driver run against an upstream that answers every GET with a
\* transient status ends with the fetch exhausted (max_retries GETs, no
\* value), "no data" logged, no normalize and no load, and without the failure
\* handler.
C9_ExhaustedFetchStopsSuccessfully ==
  ( /\ entry = "main"
    /\ upstream = "transient"
    /\ pc = "done" ) =>
    /\ gets = DefaultMaxRetries
    /\ data = NoneValue
    /\ log = <<"Sem dados da API.">>
    /\ outcome = "ok"
    /\ catches = 0
    /\ \A x \in {"data_transform"} \cup LoadNames : Count(stages, x) = 0

LacksExpectedColumn(df) ==
  \E i \in DOMAIN colunas_relacionais : colunas_relacionais[i] \notin df.columns

\* C11: postgresql_load called with a table that lacks one of the ten expected
\* columns raises KeyError (the schema mismatch) and leaves every sink, the
\* `users` table included, as it was.
C11_MissingColumnWritesNothing ==
  [][ (pc \in {"L291", "postgresql_load"} /\ LacksExpectedColumn(data_df)) =>
        /\ sinks' = sinks
        /\ exc' = Exc("KeyError")
        /\ pc' # pc
        /\ entry = "postgresql_load" => (pc' = "done" /\ outcome' = "raised") ]_vars

C11_Witness ==
  /\ entry = "postgresql_load"
  /\ pc = "done"
  /\ outcome = "raised"
  /\ exc = Exc("KeyError")
  /\ data_df.rows # <<>>
  /\ Cardinality({ i \in DOMAIN colunas_relacionais :
                     colunas_relacionais[i] \notin data_df.columns }) = 1
  /\ sinks["postgresql"] = <<ExistingRow>>

\* a run that is one call of data_transform, which returned
Transformed ==
  entry = "data_transform" /\ pc = "done" /\ outcome = "returned"

\* what the value v of the payload is in the table: the string of the number
\* for an integer or a float, v itself for a string or a null
Stringified(v) == IF v.t \in {"int", "float"} THEN Str(v.s) ELSE v

\* tokens with a capital letter
UpperTokens == {"Email", "NAME", "Age"}

\* lower-case, no leading or trailing white space, no dot
NormalName(c) ==
  /\ \A i \in DOMAIN c : c[i] # "." /\ c[i] \notin UpperTokens
  /\ c # <<>> => (c[1] # " " /\ c[Len(c)] # " ")

\* C12: in the table data_transform returns, every value of the payload that
\* was an integer or a float is the string of that number, every string and
\* null is unchanged, and every column name is lower-case, trimmed and
\* without a dot.
C12_NumbersBecomeStrings ==
  Transformed =>
    /\ \A c \in data_df.columns : NormalName(c)
    /\ \A i \in DOMAIN data.results : \A p \in DOMAIN data.results[i] :
         LET c == RenameColumn(JoinPath(p))
         IN /\ c \in data_df.columns
            /\ data_df.rows[i][c] = Stringified(data.results[i][p])

\* the part of C12 that holds: the column names, and the values of the
\* payloads in which no column mixes numbers with nulls or with strings
C12_HoldsWithoutMixedColumns ==
  Transformed =>
    /\ \A c \in data_df.columns : NormalName(c)
    /\ data \notin {PayloadMixedNull, PayloadMixedStr} =>
         \A i \in DOMAIN data.results : \A p \in DOMAIN data.results[i] :
           data_df.rows[i][RenameColumn(JoinPath(p))]
             = Stringified(data.results[i][p])

\* C13: data_transform applied to the table it returned succeeds and returns
\* an equal table.
C13_TransformTwice ==
  Transformed =>
    /\ ~data_transform_raises(AsData(data_df))
    /\ data_transform_value(AsData(data_df)) = data_df

\* C13, amended: the renaming of the columns and the conversion of the numeric
\* columns, applied again to the table data_transform returned, leave it
\* unchanged; data_transform itself raises when handed that table.
C13_StepsIdempotent ==
  Transformed =>
    /\ stringify_numeric(rename_columns(data_df)) = data_df
    /\ data_transform_raises(AsData(data_df))

C13_Witness ==
  /\ Transformed
  /\ data = PayloadOddKeys
  /\ data_df.columns =
       { <<"email">>, <<"name", "_", "first">>, <<"age">>, <<"dob", "_", "year">> }
  /\ data_df.rows[1][<<"age">>] = Str("30")


\* ------------------------------------------------------------------------
\* C14: the URL of a request
\* ------------------------------------------------------------------------
RECURSIVE WithoutTrailingSlashes(_)
WithoutTrailingSlashes(u) ==
  IF Len(u) > 0 /\ u[Len(u)] = "/"
  THEN WithoutTrailingSlashes([i \in 1 .. Len(u) - 1 |-> u[i]])
  ELSE u

\* the part of u from its first token that is not a slash
WithoutLeadingSlashes(u) ==
  LET k == Cardinality({i \in 1 .. Len(u) : \A j \in 1 .. i : u[j] = "/"})
  IN [i \in 1 .. Len(u) - k |-> u[i + k]]

\* C14: every GET of makeRequest goes to the base URL without its trailing
\* slashes, then exactly one slash, then the endpoint without its leading
\* slashes; with an empty endpoint the URL is the base and one slash.
C14_UrlJoinedBySingleSlash ==
  (DirectRequest /\ gets > 0) =>
    /\ full_url = WithoutTrailingSlashes(base_url) \o <<"/">>
                    \o WithoutLeadingSlashes(endpoint)
    /\ WithoutLeadingSlashes(endpoint) = <<>> =>
         full_url = WithoutTrailingSlashes(base_url) \o <<"/">>

\* a GET was made for a base with two trailing and an endpoint with two
\* leading slashes
C14_Witness ==
  /\ entry = "makeRequest"
  /\ gets > 0
  /\ base_url = << "https:", "/", "/", "randomuser.me", "/", "api", "/", "/" >>
  /\ endpoint = << "/", "/", "users" >>
  /\ full_url = << "https:", "/", "/", "randomuser.me", "/", "api", "/", "users" >>

\* a GET was made with an endpoint of slashes only
C14_WitnessEmptyEndpoint ==
  /\ entry = "makeRequest"
  /\ gets > 0
  /\ endpoint = << "/" >>
  /\ full_url = << "https:", "/", "/", "randomuser.me", "/", "api", "/" >>


\* ------------------------------------------------------------------------
\* C15: transport failures count like transient statuses
\* ------------------------------------------------------------------------
\* C15: while every GET of a makeRequest call ended in a transport failure or
\* a transient status, in any order, each of them advanced the one attempt
\* counter, the i-th of them was followed by a sleep of 2^i seconds, and the
\* call has issued at most max_retries GETs.
C15_TransportCountsAsTransient ==
  (DirectRequest /\ n_transient + n_transport = gets) =>
    /\ attempt = gets
    /\ Len(delays) = gets
    /\ \A i \in 1 .. gets : delays[i] = 2 ^ i
    /\ gets <= max_retries

\* a call that met a transport failure, then more failures of both kinds, and
\* ended on a transport failure
C15_Witness ==
  /\ entry = "makeRequest"
  /\ max_retries = 3
  /\ pc = "done"
  /\ gets = 3
  /\ n_transport = 2
  /\ n_transient = 1
  /\ response = ConnectionError
  /\ delays = <<2, 4, 8>>
  /\ data = NoneValue


\* ------------------------------------------------------------------------
\* C16: reclamation inside wait_memory
\* ------------------------------------------------------------------------
\* gc.collect and the half-second pause, then the poll interval
ReclaimedThenPolled == (PollSeconds * TicksPerSecond) + PauseTicks

\* C16 as claimed: every iteration of wait_memory whose sample is above
\* max_percent has collected and paused before it ended, the iteration in
\* which the wait times out included, whatever clean_memory's sample reads.
C16_EveryAboveIterationReclaims ==
  (pc \in {"L108", "L108_ret"} /\ Above(usage)) =>
    (collected /\ last_sleep = ReclaimedThenPolled)

\* C16 as the code has it: an iteration whose sample is above max_percent and
\* which does not time out calls clean_memory, and clean_memory collects and
\* pauses exactly when its own sample is above max_percent; the iteration
\* then sleeps the poll interval. The iteration in which the wait returns,
\* timed out or not, neither collects nor sleeps.
C16_ReclaimsOnCleanMemorySample ==
  /\ (pc = "L108" /\ last_sleep > 0) =>
       /\ Above(usage)
       /\ (collected <=> Above(clean_usage))
       /\ last_sleep = IF Above(clean_usage)
                       THEN ReclaimedThenPolled
                       ELSE PollSeconds * TicksPerSecond
  /\ pc = "L108_ret" =>
       /\ last_sleep = 0
       /\ (collected <=> Above(clean_usage))

\* the wait timed out on a sample above max_percent without reclaiming, and
\* in the iteration before clean_memory read a low sample and did not collect
C16_Witness ==
  /\ pc = "L108_ret"
  /\ Above(usage)
  /\ elapsed >= max_time_seconds(MaxWaitMinutes)
  /\ last_sleep = 0
  /\ clean_usage = 42
  /\ ~collected


\* ------------------------------------------------------------------------
\* C17: the table handed to the loads
\* ------------------------------------------------------------------------
LoadSites ==
  { "L291", "L295", "L299", "postgresql_load", "mongodb_load", "bigquery_load" }

\* no load, called directly or from __main__, changes the table it is handed
LoadsLeaveTableUnchanged ==
  [][ (pc \in LoadSites) => (data_df' = data_df) ]_vars

DriverOrder ==
  << "wait_memory", "clean_memory", "DataLoader", "makeRequest",
     "data_transform", "postgresql_load", "mongodb_load", "bigquery_load",
     "clean_memory" >>

IsPrefix(p, q) ==
  Len(p) <= Len(q) /\ \A i \in 1 .. Len(p) : p[i] = q[i]

\* the calls made up to and including the one that raised
UpToFailure == SubSeq(stages, 1, Len(stages) - 1)

\* C18: in a driver run a stage has been started only after every earlier
\* stage returned without an exception: while no exception was raised the
\* calls made are an initial part of the driver's sequence, and once a stage
\* has raised, the only call after it is the clean_memory of the except
\* clause, so that no later stage (after a failed relational load, the
\* document and warehouse loads; after a failed document load, the warehouse
\* load) is attempted. The except clause handles a failure of every call of
\* the try block in this way.
C18_FailFastAcrossStages ==
  /\ (entry = "main" /\ exc = NoExc) => IsPrefix(stages, DriverOrder)
  /\ (entry = "main" /\ exc # NoExc) =>
       /\ Len(stages) >= 2
       /\ stages[Len(stages)] = "clean_memory"
       /\ IsPrefix(UpToFailure, DriverOrder)
       /\ Len(UpToFailure) < Len(DriverOrder)
       /\ \A k \in Len(stages) .. Len(DriverOrder) - 1 :
            Count(stages, DriverOrder[k]) = 0
  /\ \A site \in TrySites :
       /\ Called(main_except(site).pc) = <<"clean_memory">>
       /\ main_after(main_except(site).pc, FALSE).pc = "done"
       /\ main_after(main_except(site).pc, FALSE).outcome = "failed"

\* the fetch raised: normalize and the three loads were never called
C18_Witness ==
  /\ entry = "main"
  /\ pc = "done"
  /\ exc = Exc("AttributeError")
  /\ stages = << "wait_memory", "clean_memory", "DataLoader", "makeRequest",
                 "clean_memory" >>
  /\ outcome = "failed"


\* ------------------------------------------------------------------------
\* C19: one sleep after every counted failure
\* ------------------------------------------------------------------------
RECURSIVE Sum(_)
Sum(seq) == IF seq = <<>> THEN 0 ELSE Head(seq) + Sum(Tail(seq))

\* C19: in a makeRequest call the sleeps are as many as the failures that
\* advanced the attempt counter, the i-th of 2^i seconds; once the counter
\* has reached max_retries the final GET was such a failure and was followed
\* by the sleep of 2^max_retries seconds, the call has slept
\* 2^(max_retries+1) - 2 seconds in all, and it ends by returning None.
C19_SleepAfterEveryCountedFailure ==
  DirectRequest =>
    /\ Len(delays) = attempt
    /\ attempt <= max_retries
    /\ \A i \in 1 .. Len(delays) : delays[i] = 2 ^ i
    /\ attempt = max_retries =>
         /\ Disposition(response, json_error_is_request_exception) = "retry"
         /\ delays[Len(delays)] = 2 ^ max_retries
         /\ Sum(delays) = 2 ^ (max_retries + 1) - 2
         /\ pc = "done" => (data = NoneValue /\ outcome = "returned")

\* a call exhausted by three counted failures, a swallowed HTTP error among
\* them, ended on a transient status: it slept 2 + 4 + 8 seconds
C19_Witness ==
  /\ entry = "makeRequest"
  /\ max_retries = 3
  /\ pc = "done"
  /\ attempt = 3
  /\ gets = 3
  /\ other_status = 404
  /\ response.status \in TransientStatus
  /\ Sum(delays) = 14
  /\ data = NoneValue

====
